---- MODULE Spec2Model ----
(***************************************************************************)
(* SimpleJinja2Processor (scripts/jinja2-simple-processor.py): the         *)
(* analysis of one Jinja2 SQL template into a variable catalogue and a     *)
(* demo SQL text.                                                          *)
(*                                                                         *)
(* Text is a sequence of atoms.  An atom is one lexical piece of the       *)
(* template: a newline, a blank, a run of plain SQL, or one template tag   *)
(* written in a fixed spelling.  The names and guards inside tags are      *)
(* sequences of characters, so that the substring and word-boundary tests  *)
(* of the code are computed on characters.                                 *)
(***************************************************************************)
EXTENDS Integers, Sequences, FiniteSets, TLC

VARIABLES
    entry,              \* the method called: analyze_template, or the
                        \* simplifier on its own
    template_content,   \* the argument of the call
    pc,                 \* position inside analyze_template
    undefined_vars,     \* meta.find_undeclared_variables(ast)
    variables,          \* list of VariableInfo
    has_conditionals,
    has_loops,
    demo_values,        \* name -> default value
    lines,              \* _simplify_conditionals_for_demo: the split template
    output_lines,
    i,                  \* 0-based line index of the scan
    nesting_level,
    block_content,
    simplified_template,
    result,             \* the ProcessResult returned, NoResult before return
    raised,             \* exceptions raised so far: <<stage, kind>> in order
    ran,                \* stages entered so far, in order
    overrides,          \* main: the "variables" object of the request, once
                        \* main has applied it
    earlier             \* the calls this processor instance completed before

vars == <<entry, template_content, pc, undefined_vars, variables, has_conditionals,
          has_loops, demo_values, lines, output_lines, i, nesting_level,
          block_content, simplified_template, result, raised, ran, overrides,
          earlier>>

-----------------------------------------------------------------------------
(* Bounds of the exploration.                                              *)

MaxLines == 3

-----------------------------------------------------------------------------
(* Python's None and optional values.                                      *)

None == [none |-> TRUE]
Some(v) == [none |-> FALSE, v |-> v]

-----------------------------------------------------------------------------
(* Characters.                                                             *)

LowerLetters == {"a","b","c","d","e","f","g","h","i","j","k","l","m",
                 "n","o","p","q","r","s","t","u","v","w","x","y","z"}
UpperLetters == {"A","B","C","D","E","F","G","H","I","J","K","L","M",
                 "N","O","P","Q","R","S","T","U","V","W","X","Y","Z"}
Digits == {"0","1","2","3","4","5","6","7","8","9"}

\* [a-zA-Z_]
IsIdentStart(c) == c \in LowerLetters \cup UpperLetters \cup {"_"}
\* [a-zA-Z0-9_], which is also \w for these characters
IsWordChar(c) == IsIdentStart(c) \/ c \in Digits

\* str.lower() on one character (the upper-case letters the names use)
LowerChar(c) ==
    CASE c = "I" -> "i"
      [] c = "D" -> "d"
      [] c = "L" -> "l"
      [] OTHER -> c

LowerStr(s) == [j \in 1..Len(s) |-> LowerChar(s[j])]

\* p occurs in s at the 1-based position j
OccursAt(s, p, j) ==
    /\ j >= 1
    /\ j + Len(p) - 1 <= Len(s)
    /\ \A q \in 1..Len(p) : s[j + q - 1] = p[q]

\* Python's  p in s  on strings
StrContains(s, p) == \E j \in 1..(Len(s) + 1) : OccursAt(s, p, j)

\* the 1-based position of the first c in s, 0 if there is none
RECURSIVE FindChar(_, _, _)
FindChar(s, c, j) ==
    IF j > Len(s) THEN 0
    ELSE IF s[j] = c THEN j
    ELSE FindChar(s, c, j + 1)

\* s.split(c)[0]
BeforeFirst(s, c) ==
    LET p == FindChar(s, c, 1)
    IN  IF p = 0 THEN s ELSE SubSeq(s, 1, p - 1)

\* str.strip() on a character string
RECURSIVE StripChars(_)
StripChars(s) ==
    IF s = <<>> THEN s
    ELSE IF Head(s) = " " THEN StripChars(Tail(s))
    ELSE IF s[Len(s)] = " " THEN StripChars(SubSeq(s, 1, Len(s) - 1))
    ELSE s

-----------------------------------------------------------------------------
(* Atoms of template text.                                                 *)
(*   k   the kind of atom                                                  *)
(*   s   the characters of a run of plain text (kind "txt")                *)
(*   g   the expression of {{ g }} or the guard of {% if g %}, characters  *)
(*   sp  TRUE when a tag is spelled "{% name", FALSE when "{%name"         *)

Atom(k, s, g, sp) == [k |-> k, s |-> s, g |-> g, sp |-> sp]

Txt(s)      == Atom("txt", s, <<>>, TRUE)       \* plain SQL, no blank at its ends
SP          == Atom("ws", " ", <<>>, TRUE)      \* one blank
NL          == Atom("nl", "\n", <<>>, TRUE)     \* one newline
Expr(g)     == Atom("expr", "", g, TRUE)        \* {{ g }}
OpenExpr(g) == Atom("openexpr", "", g, TRUE)    \* {{ g   (never closed)
If(g)       == Atom("if", "", g, TRUE)          \* {% if g %}
IfTight(g)  == Atom("if", "", g, FALSE)         \* {%if g %}
IfDash(g)   == Atom("if", "-", g, FALSE)        \* {%- if g %}
Elif(g)     == Atom("elif", "", g, TRUE)        \* {% elif g %}
Else        == Atom("else", "", <<>>, TRUE)     \* {% else %}
Endif       == Atom("endif", "", <<>>, TRUE)    \* {% endif %}
Comment     == Atom("comment", "", <<>>, TRUE)  \* {# ... #}
For(g)      == Atom("for", "", g, TRUE)         \* {% for g %}, g is "v in it"
Endfor      == Atom("endfor", "", <<>>, TRUE)   \* {% endfor %}
Set(g)      == Atom("set", "", g, TRUE)         \* {% set g = 1 %}

IsSpace(a) == a.k \in {"ws", "nl"}              \* \s
TagKinds == {"if", "elif", "else", "endif", "for", "endfor", "set"}

\* Python's  '{% <name>' in text : a tag of that name in the spaced spelling
HasTagPrefix(text, name) ==
    \E j \in 1..Len(text) : text[j].k = name /\ text[j].sp

\* the text contains '{%' or '%}'
HasTagDelimiter(text) == \E j \in 1..Len(text) : text[j].k \in TagKinds

\* str.split('\n')
RECURSIVE SplitLines(_, _, _)
SplitLines(text, j, cur) ==
    IF j > Len(text) THEN <<cur>>
    ELSE IF text[j].k = "nl" THEN <<cur>> \o SplitLines(text, j + 1, <<>>)
    ELSE SplitLines(text, j + 1, Append(cur, text[j]))

Split(text) == SplitLines(text, 1, <<>>)

\* '\n'.join(ls)
RECURSIVE Join(_)
Join(ls) ==
    IF ls = <<>> THEN <<>>
    ELSE IF Len(ls) = 1 THEN ls[1]
    ELSE ls[1] \o <<NL>> \o Join(Tail(ls))

-----------------------------------------------------------------------------
(* Names used by the templates.                                            *)

n_user_id     == <<"u","s","e","r","_","i","d">>
n_limit_count == <<"l","i","m","i","t","_","c","o","u","n","t">>
n_is_admin    == <<"i","s","_","a","d","m","i","n">>
n_show_extra  == <<"s","h","o","w","_","e","x","t","r","a">>
n_debug_mode  == <<"d","e","b","u","g","_","m","o","d","e">>
n_x           == <<"x">>
n_id          == <<"i","d">>
n_tenant      == <<"t","e","n","a","n","t">>
e_user_profile_name == <<"u","s","e","r",".","p","r","o","f","i","l","e",".","n","a","m","e">>

\* the other names the templates use
Name ==
    [ limit      |-> <<"l","i","m","i","t">>,
      offset     |-> <<"o","f","f","s","e","t">>,
      active     |-> <<"a","c","t","i","v","e">>,
      date       |-> <<"d","a","t","e">>,
      name       |-> <<"n","a","m","e">>,
      has_orders |-> <<"h","a","s","_","o","r","d","e","r","s">>,
      total      |-> <<"t","o","t","a","l">>,
      item       |-> <<"i","t","e","m">>,
      items      |-> <<"i","t","e","m","s">>,
      is_debug   |-> <<"i","s","_","d","e","b","u","g">>,
      latest     |-> <<"l","a","t","e","s","t">>,
      Dev_mode   |-> <<"D","e","v","_","m","o","d","e">>,
      status     |-> <<"s","t","a","t","u","s">>,
      ID         |-> <<"I","D">>,
      id2        |-> <<"i","d","2">>,
      created_at |-> <<"c","r","e","a","t","e","d","_","a","t">>,
      is_active  |-> <<"i","s","_","a","c","t","i","v","e">>,
      is_        |-> <<"i","s","_">>,
      end        |-> <<"e","n","d">> ]

-----------------------------------------------------------------------------
(* Python values held by VariableInfo.default_value.                       *)

PyInt(n)  == [ty |-> "int",  n |-> n, s |-> ""]
PyBool(b) == [ty |-> "bool", n |-> IF b THEN 1 ELSE 0, s |-> ""]
PyStr(s)  == [ty |-> "str",  n |-> 0, s |-> s]

\* str(v), as the engine writes a value into the output
PyToStr(v) ==
    CASE v.ty = "str" -> v.s
      [] v.ty = "bool" -> IF v.n = 1 THEN "True" ELSE "False"
      [] v.ty = "int" /\ v.n = 42 -> "42"
      [] v.ty = "int" /\ v.n = 10 -> "10"
      [] v.ty = "int" /\ v.n = 7 -> "7"
      [] v.ty = "int" /\ v.n = 1 -> "1"
      [] OTHER -> "0"

\* bool(v)
PyTruthy(v) ==
    CASE v.ty = "str" -> v.s # ""
      [] OTHER -> v.n # 0

-----------------------------------------------------------------------------
(* The template engine (jinja2.Environment), as far as the processor uses  *)
(* it: parse, find_undeclared_variables, from_string + render.             *)

\* re.findall(r'\b([a-zA-Z_][a-zA-Z0-9_]*)\b', s): the maximal runs of word
\* characters that start with a letter or an underscore
RECURSIVE WordEnd(_, _)
WordEnd(s, j) ==
    IF j < Len(s) /\ IsWordChar(s[j + 1]) THEN WordEnd(s, j + 1) ELSE j

RECURSIVE IdentTokens(_, _)
IdentTokens(s, j) ==
    IF j > Len(s) THEN <<>>
    ELSE IF ~IsWordChar(s[j]) THEN IdentTokens(s, j + 1)
    ELSE LET e == WordEnd(s, j)
         IN  IF IsIdentStart(s[j])
             THEN <<SubSeq(s, j, e)>> \o IdentTokens(s, e + 1)
             ELSE IdentTokens(s, e + 1)

SeqToSet(q) == {q[j] : j \in 1..Len(q)}

EngineOk == [ok |-> TRUE, message |-> "", lineno |-> 0]
EngineSyntaxError(m, l) == [ok |-> FALSE, message |-> m, lineno |-> l]

\* the loop variable and the iterable of  {% for v in it %}
LoopVar(g) == IdentTokens(g, 1)[1]
LoopIterable(g) == IdentTokens(g, 1)[3]
IsForClause(g) ==
    LET tokens == IdentTokens(g, 1)
    IN  Len(tokens) = 3 /\ tokens[2] = <<"i","n">>

\* Environment.parse: the first syntax error from left to right, or EngineOk.
\* open is the stack of open blocks: "if" and "for", "ifelse" and "forelse"
\* once the block has seen its else.
RECURSIVE ParseFrom(_, _, _, _)
ParseFrom(text, p, open, line) ==
    IF p > Len(text)
    THEN IF open = <<>> THEN EngineOk
         ELSE EngineSyntaxError("Unexpected end of template.", line)
    ELSE LET a == text[p]
             top == IF open = <<>> THEN "" ELSE open[Len(open)]
             pop == SubSeq(open, 1, Len(open) - 1)
         IN  CASE a.k = "nl" -> ParseFrom(text, p + 1, open, line + 1)
               [] a.k = "openexpr" ->
                    EngineSyntaxError("expected token 'end of print statement'", line)
               [] a.k = "expr" ->
                    IF a.g = <<>>
                    THEN EngineSyntaxError("Expected an expression", line)
                    ELSE ParseFrom(text, p + 1, open, line)
               [] a.k = "if" ->
                    IF a.g = <<>>
                    THEN EngineSyntaxError("Expected an expression", line)
                    ELSE ParseFrom(text, p + 1, Append(open, "if"), line)
               [] a.k = "elif" ->
                    IF top # "if"
                    THEN EngineSyntaxError("Encountered unknown tag 'elif'.", line)
                    ELSE ParseFrom(text, p + 1, open, line)
               [] a.k = "else" ->
                    IF top = "if" THEN ParseFrom(text, p + 1, Append(pop, "ifelse"), line)
                    ELSE IF top = "for"
                    THEN ParseFrom(text, p + 1, Append(pop, "forelse"), line)
                    ELSE EngineSyntaxError("Encountered unknown tag 'else'.", line)
               [] a.k = "endif" ->
                    IF top \notin {"if", "ifelse"}
                    THEN EngineSyntaxError("Encountered unknown tag 'endif'.", line)
                    ELSE ParseFrom(text, p + 1, pop, line)
               [] a.k = "for" ->
                    IF ~IsForClause(a.g)
                    THEN EngineSyntaxError("expected token 'in'", line)
                    ELSE ParseFrom(text, p + 1, Append(open, "for"), line)
               [] a.k = "endfor" ->
                    IF top \notin {"for", "forelse"}
                    THEN EngineSyntaxError("Encountered unknown tag 'endfor'.", line)
                    ELSE ParseFrom(text, p + 1, pop, line)
               [] a.k = "set" ->
                    IF a.g = <<>>
                    THEN EngineSyntaxError("expected token 'name'", line)
                    ELSE ParseFrom(text, p + 1, open, line)
               [] OTHER -> ParseFrom(text, p + 1, open, line)

EngineParse(text) == ParseFrom(text, 1, <<>>, 1)

\* words of the expression language that are not variable names
EngineKeywords == { <<"n","o","t">>, <<"a","n","d">>, <<"o","r">>,
                    <<"i","n">>, <<"i","s">> }

\* meta.find_undeclared_variables: the names the template reads from its
\* context.  declared holds the names the template has assigned at this
\* point: the target of a {% set %} from the tag on, the loop variable and
\* "loop" inside a {% for %} block.  scopes is the stack of open blocks with
\* the names declared when each was opened.  A name assigned inside an if
\* block is assigned in that branch only, so it is still read from the
\* context afterwards.
RECURSIVE UndeclaredFrom(_, _, _, _)
UndeclaredFrom(text, p, declared, scopes) ==
    IF p > Len(text) THEN {}
    ELSE LET a == text[p]
             rest(d, sc) == UndeclaredFrom(text, p + 1, d, sc)
             saved == scopes[Len(scopes)]
             pop == SubSeq(scopes, 1, Len(scopes) - 1)
         IN  CASE a.k = "expr" ->
                    ({BeforeFirst(a.g, ".")} \ declared) \cup rest(declared, scopes)
               [] a.k \in {"if", "elif"} ->
                    ((SeqToSet(IdentTokens(a.g, 1)) \ EngineKeywords) \ declared)
                        \cup rest(declared,
                                  IF a.k = "if"
                                  THEN Append(scopes, [k |-> "if", declared |-> declared])
                                  ELSE scopes)
               [] a.k = "for" ->
                    ({LoopIterable(a.g)} \ declared)
                        \cup rest(declared \cup {LoopVar(a.g), <<"l","o","o","p">>},
                                  Append(scopes, [k |-> "for", declared |-> declared]))
               [] a.k \in {"endif", "endfor"} -> rest(saved.declared, pop)
               [] a.k = "set" ->
                    (IF \E j \in 1..Len(scopes) : scopes[j].k = "if" THEN {a.g} ELSE {})
                        \cup rest(declared \cup {a.g}, scopes)
               [] OTHER -> rest(declared, scopes)

EngineUndeclared(text) == UndeclaredFrom(text, 1, {}, <<>>)

\* number of attribute accesses in  name.attr.attr
RECURSIVE CountChar(_, _)
CountChar(s, c) ==
    IF s = <<>> THEN 0
    ELSE (IF Head(s) = c THEN 1 ELSE 0) + CountChar(Tail(s), c)

\* a print statement: the value of a name, the empty text for an undefined
\* name or for an attribute the value lacks; reading an attribute of an
\* undefined value raises UndefinedError
EngineEval(g, values) ==
    LET base == BeforeFirst(g, ".")
        attrs == CountChar(g, ".")
        defined == base \in DOMAIN values
    IN  IF attrs = 0
        THEN [ok |-> TRUE, out |-> IF defined THEN <<Txt(PyToStr(values[base]))>> ELSE <<>>]
        ELSE IF attrs = 1 /\ defined
        THEN [ok |-> TRUE, out |-> <<>>]
        ELSE [ok |-> FALSE, out |-> <<>>]

\* the truth of a guard that is one name
EngineTruth(g, values) == g \in DOMAIN values /\ PyTruthy(values[g])

\* the position of the tag that closes the block opened before p, 0 if none
RECURSIVE BlockEnd(_, _, _)
BlockEnd(text, p, depth) ==
    IF p > Len(text) THEN 0
    ELSE IF text[p].k \in {"if", "for"} THEN BlockEnd(text, p + 1, depth + 1)
    ELSE IF text[p].k \in {"endif", "endfor"}
    THEN IF depth = 0 THEN p ELSE BlockEnd(text, p + 1, depth - 1)
    ELSE BlockEnd(text, p + 1, depth)

\* the position of the else of the block opened before p, 0 if it has none
RECURSIVE BlockElse(_, _, _)
BlockElse(text, p, depth) ==
    IF p > Len(text) THEN 0
    ELSE IF text[p].k \in {"if", "for"} THEN BlockElse(text, p + 1, depth + 1)
    ELSE IF text[p].k \in {"endif", "endfor"}
    THEN IF depth = 0 THEN 0 ELSE BlockElse(text, p + 1, depth - 1)
    ELSE IF text[p].k = "else" /\ depth = 0 THEN p
    ELSE BlockElse(text, p + 1, depth)

\* the items a for loop takes from a str: its characters
StrItems(s) ==
    CASE s = "'demo_value'" ->
            <<"'", "d", "e", "m", "o", "_", "v", "a", "l", "u", "e", "'">>
      [] s = "'2024-01-01'" ->
            <<"'", "2", "0", "2", "4", "-", "0", "1", "-", "0", "1", "'">>
      [] OTHER -> <<>>

\* Template.render.  blocks is the stack of open if-blocks: emit says whether
\* the current branch is written, taken whether a branch of the block was
\* true already, outer whether the enclosing branch is written.  A for block
\* is rendered as a whole: its body once for each item, in a scope of its
\* own, or its else part when there is no item.
\* the blank at p is among the blanks right before a tag spelled "{%-", which
\* the engine removes from the text
TrimmedByTag(text, p) ==
    /\ IsSpace(text[p])
    /\ \E q \in (p + 1)..Len(text) :
           /\ text[q].k = "if" /\ text[q].s = "-"
           /\ \A r \in p..(q - 1) : IsSpace(text[r])

RECURSIVE RenderFrom(_, _, _, _)
RECURSIVE RenderLoop(_, _, _, _)
RenderLoop(body, name, items, values) ==
    IF items = <<>> THEN [ok |-> TRUE, out |-> <<>>]
    ELSE LET first == RenderFrom(body, 1, <<>>, (name :> PyStr(Head(items))) @@ values)
             others == RenderLoop(body, name, Tail(items), values)
         IN  IF first.ok /\ others.ok
             THEN [ok |-> TRUE, out |-> first.out \o others.out]
             ELSE [ok |-> FALSE, out |-> <<>>]

RenderFrom(text, p, blocks, values) ==
    IF p > Len(text) THEN [ok |-> TRUE, out |-> <<>>]
    ELSE IF TrimmedByTag(text, p) THEN RenderFrom(text, p + 1, blocks, values)
    ELSE LET a == text[p]
             top == Len(blocks)
             emit == top = 0 \/ blocks[top].emit
             rest(b) == RenderFrom(text, p + 1, b, values)
             put(o) == LET r == rest(blocks)
                       IN  IF r.ok THEN [ok |-> TRUE, out |-> o \o r.out] ELSE r
         IN  CASE a.k = "if" ->
                    LET c == emit /\ EngineTruth(a.g, values)
                    IN  rest(Append(blocks, [emit |-> c, taken |-> c, outer |-> emit]))
               [] a.k = "elif" ->
                    LET b == blocks[top]
                        c == b.outer /\ ~b.taken /\ EngineTruth(a.g, values)
                    IN  rest([blocks EXCEPT ![top] =
                                 [emit |-> c, taken |-> b.taken \/ c, outer |-> b.outer]])
               [] a.k = "else" ->
                    LET b == blocks[top]
                    IN  rest([blocks EXCEPT ![top] =
                                 [emit |-> b.outer /\ ~b.taken, taken |-> TRUE,
                                  outer |-> b.outer]])
               [] a.k = "endif" -> rest(SubSeq(blocks, 1, top - 1))
               [] a.k = "expr" ->
                    IF ~emit THEN rest(blocks)
                    ELSE LET v == EngineEval(a.g, values)
                         IN  IF v.ok THEN put(v.out) ELSE [ok |-> FALSE, out |-> <<>>]
               [] a.k = "set" ->
                    RenderFrom(text, p + 1, blocks,
                               IF emit THEN (a.g :> PyInt(1)) @@ values ELSE values)
               [] a.k = "for" ->
                    LET close == BlockEnd(text, p + 1, 0)
                        else == BlockElse(text, p + 1, 0)
                        body == SubSeq(text, p + 1, (IF else = 0 THEN close ELSE else) - 1)
                        orelse == IF else = 0 THEN <<>> ELSE SubSeq(text, else + 1, close - 1)
                        it == LoopIterable(a.g)
                        after == RenderFrom(text, close + 1, blocks, values)
                        iterable == it \notin DOMAIN values \/ values[it].ty = "str"
                        items == IF it \in DOMAIN values THEN StrItems(values[it].s) ELSE <<>>
                        inner == IF items = <<>> THEN RenderFrom(orelse, 1, <<>>, values)
                                 ELSE RenderLoop(body, LoopVar(a.g), items, values)
                    IN  IF ~emit THEN after
                        ELSE IF iterable /\ inner.ok /\ after.ok
                        THEN [ok |-> TRUE, out |-> inner.out \o after.out]
                        ELSE [ok |-> FALSE, out |-> <<>>]
               [] a.k = "comment" -> rest(blocks)
               [] OTHER -> IF emit THEN put(<<a>>) ELSE rest(blocks)

\* env.from_string(text).render(**values): the rendered text, or a failure
\* (a syntax error of the text, or an error raised while rendering)
EngineRender(text, values) ==
    IF ~EngineParse(text).ok THEN [ok |-> FALSE, out |-> <<>>]
    ELSE RenderFrom(text, 1, <<>>, values)

-----------------------------------------------------------------------------
(* SimpleJinja2Processor: the pure helpers.                                *)

\* \b at the position before s[p] (p = Len(s) + 1 is the end of s)
WordBoundary(s, p) ==
    LET before == p > 1 /\ IsWordChar(s[p - 1])
        after == p <= Len(s) /\ IsWordChar(s[p])
    IN  before # after

\* re.search(r'(w1|w2|...)', s): the words anywhere in s
SearchWordsAnywhere(s, words) == \E w \in words : StrContains(s, w)

\* re.search(r'\b(w1|w2|...)\b', s)
SearchWords(s, words) ==
    \E j \in 1..Len(s) : \E w \in words :
        OccursAt(s, w, j) /\ WordBoundary(s, j) /\ WordBoundary(s, j + Len(w))

IntegerWords ==
    { <<"a","g","e">>, <<"c","o","u","n","t">>, <<"l","i","m","i","t">>,
      <<"o","f","f","s","e","t">>, <<"i","d">>, <<"n","u","m">>,
      <<"a","m","o","u","n","t">>, <<"t","o","t","a","l">>,
      <<"q","u","a","n","t","i","t","y">>, <<"n","u","m","b","e","r">> }
BooleanWords ==
    { <<"i","s","_">>, <<"h","a","s","_">>, <<"c","a","n","_">>,
      <<"s","h","o","u","l","d","_">>, <<"w","i","l","l","_">>,
      <<"e","n","a","b","l","e","d">>, <<"d","i","s","a","b","l","e","d">>,
      <<"a","c","t","i","v","e">>, <<"i","n","a","c","t","i","v","e">> }
DateWords ==
    { <<"d","a","t","e">>, <<"t","i","m","e">>,
      <<"c","r","e","a","t","e","d">>, <<"u","p","d","a","t","e","d">>,
      <<"b","i","r","t","h">>, <<"s","t","a","r","t">>, <<"e","n","d">>,
      <<"b","e","g","i","n">>, <<"f","i","n","i","s","h">>,
      <<"d","a","t","e","t","i","m","e">> }
StringWords ==
    { <<"n","a","m","e">>, <<"e","m","a","i","l">>,
      <<"u","s","e","r","n","a","m","e">>, <<"t","i","t","l","e">>,
      <<"d","e","s","c","r","i","p","t","i","o","n">>, <<"t","e","x","t">>,
      <<"s","t","a","t","u","s">>, <<"u","u","i","d">>, <<"i","d">> }

\* the patterns dictionary, in its insertion order
TypePatterns ==
    << [type |-> "integer", words |-> IntegerWords],
       [type |-> "boolean", words |-> BooleanWords],
       [type |-> "date",    words |-> DateWords],
       [type |-> "string",  words |-> StringWords] >>

RECURSIVE FirstPattern(_, _)
FirstPattern(lower_name, j) ==
    IF j > Len(TypePatterns) THEN "string"
    ELSE IF SearchWords(lower_name, TypePatterns[j].words) THEN TypePatterns[j].type
    ELSE FirstPattern(lower_name, j + 1)

_infer_variable_type(var_name, context) == FirstPattern(LowerStr(var_name), 1)

\* the characters of a type name
TypeChars(t) ==
    CASE t = "integer" -> <<"i","n","t","e","g","e","r">>
      [] t = "boolean" -> <<"b","o","o","l","e","a","n">>
      [] t = "date"    -> <<"d","a","t","e">>
      [] OTHER         -> <<"s","t","r","i","n","g">>

\* as _get_default_value, but the text defaults are not quoted
_get_default_value_unquoted(var_type) ==
    CASE var_type = "integer" -> PyInt(42)
      [] var_type = "boolean" -> PyBool(TRUE)
      [] var_type = "date"    -> PyStr("2024-01-01")
      [] OTHER                -> PyStr("demo_value")

_get_default_value(var_type) ==
    IF var_type = "integer" /\ StrContains(LowerStr(TypeChars(var_type)), <<"l","i","m","i","t">>)
    THEN PyInt(10)
    ELSE IF var_type = "integer" /\ StrContains(LowerStr(TypeChars(var_type)), <<"o","f","f","s","e","t">>)
    THEN PyInt(0)
    ELSE CASE var_type = "integer" -> PyInt(42)
           [] var_type = "string"  -> PyStr("'demo_value'")
           [] var_type = "boolean" -> PyBool(TRUE)
           [] var_type = "date"    -> PyStr("'2024-01-01'")
           [] OTHER                -> PyStr("'demo_value'")

VariableInfo(name, type, default_value) ==
    [name |-> name, type |-> type, default_value |-> default_value]

\* the match of r'([a-zA-Z_][a-zA-Z0-9_]*)\[' at the start of s: the
\* identifier before the bracket, <<>> when there is no match
DictMatch(s) ==
    IF s = <<>> \/ ~IsIdentStart(s[1]) THEN <<>>
    ELSE LET e == WordEnd(s, 1)
         IN  IF e < Len(s) /\ s[e + 1] = "[" THEN SubSeq(s, 1, e) ELSE <<>>

\* r'^[a-zA-Z_][a-zA-Z0-9_]*$'
IsIdentifier(s) == s # <<>> /\ IsIdentStart(s[1]) /\ WordEnd(s, 1) = Len(s)

\* the base variable of an expression, None when it has none
_extract_base_variable(expression) ==
    LET expr == StripChars(BeforeFirst(expression, "|"))
        base_var == BeforeFirst(expr, ".")
    IN  IF DictMatch(base_var) # <<>> THEN Some(DictMatch(base_var))
        ELSE IF IsIdentifier(base_var) THEN Some(base_var)
        ELSE None

ReservedWords ==
    { <<"i","f">>, <<"e","l","i","f">>, <<"e","l","s","e">>,
      <<"e","n","d","i","f">>, <<"n","o","t">>, <<"a","n","d">>, <<"o","r">>,
      <<"i","n">>, <<"i","s">>, <<"d","e","f","i","n","e","d">> }

\* a match of r'\{%\s*if\s+([^%]+?)\s*%\}' : an if tag, spelled "{% if" or
\* "{%if" but not "{%- if", with a guard
IsIfTag(a) == a.k = "if" /\ a.g # <<>> /\ a.s # "-"

RECURSIVE DropReserved(_)
DropReserved(names) ==
    IF names = <<>> THEN <<>>
    ELSE IF Head(names) \in ReservedWords THEN DropReserved(Tail(names))
    ELSE <<Head(names)>> \o DropReserved(Tail(names))

RECURSIVE ConditionalVarsFrom(_, _)
ConditionalVarsFrom(text, j) ==
    IF j > Len(text) THEN <<>>
    ELSE IF IsIfTag(text[j])
    THEN DropReserved(IdentTokens(StripChars(text[j].g), 1))
         \o ConditionalVarsFrom(text, j + 1)
    ELSE ConditionalVarsFrom(text, j + 1)

_extract_conditional_variables(text) == ConditionalVarsFrom(text, 1)

\* as ExpressionVarsFrom, but an empty known_vars filters every name out
RECURSIVE ExpressionVarsKnown(_, _, _)
ExpressionVarsKnown(text, known_vars, j) ==
    IF j > Len(text) THEN <<>>
    ELSE IF text[j].k = "expr" /\ text[j].g # <<>>
    THEN LET base_var == _extract_base_variable(StripChars(text[j].g))
         IN  (IF ~base_var.none /\ base_var.v \in known_vars
              THEN <<base_var.v>> ELSE <<>>)
             \o ExpressionVarsKnown(text, known_vars, j + 1)
    ELSE ExpressionVarsKnown(text, known_vars, j + 1)

\* the base variables of the {{ }} matches that pass the known_vars filter
RECURSIVE ExpressionVarsFrom(_, _, _)
ExpressionVarsFrom(text, known_vars, j) ==
    IF j > Len(text) THEN <<>>
    ELSE IF text[j].k = "expr" /\ text[j].g # <<>>
    THEN LET base_var == _extract_base_variable(StripChars(text[j].g))
             keep == /\ ~base_var.none
                     /\ (known_vars = {} \/ base_var.v \in known_vars)
         IN  (IF keep THEN <<base_var.v>> ELSE <<>>)
             \o ExpressionVarsFrom(text, known_vars, j + 1)
    ELSE ExpressionVarsFrom(text, known_vars, j + 1)

\* as AppendUnseen, without the test of seen_vars
RECURSIVE AppendAll(_, _, _)
AppendAll(found, names, text) ==
    IF names = <<>> THEN found
    ELSE LET var_type == _infer_variable_type(Head(names), text)
         IN  AppendAll(
                 Append(found, VariableInfo(Head(names), var_type,
                                            _get_default_value(var_type))),
                 Tail(names), text)

\* the loop body shared by both passes: append a VariableInfo for each name
\* not seen before
RECURSIVE AppendUnseen(_, _, _)
AppendUnseen(found, names, text) ==
    IF names = <<>> THEN found
    ELSE LET name == Head(names)
             seen_vars == {found[j].name : j \in 1..Len(found)}
             var_type == _infer_variable_type(name, text)
         IN  IF name \in seen_vars THEN AppendUnseen(found, Tail(names), text)
             ELSE AppendUnseen(
                      Append(found, VariableInfo(name, var_type, _get_default_value(var_type))),
                      Tail(names), text)

\* as _extract_variables, but the list and the seen names start from what
\* the call before left
_extract_variables_accumulating(text, known_vars) ==
    LET from_expressions ==
            AppendUnseen(variables, ExpressionVarsFrom(text, known_vars, 1), text)
    IN  AppendUnseen(from_expressions, _extract_conditional_variables(text), text)

\* as _extract_variables, with the conditional pass before the expression pass
_extract_variables_guards_first(text, known_vars) ==
    LET from_guards == AppendUnseen(<<>>, _extract_conditional_variables(text), text)
    IN  AppendUnseen(from_guards, ExpressionVarsFrom(text, known_vars, 1), text)

_extract_variables(text, known_vars) ==
    LET from_expressions ==
            AppendUnseen(<<>>, ExpressionVarsFrom(text, known_vars, 1), text)
    IN  AppendUnseen(from_expressions, _extract_conditional_variables(text), text)

_generate_demo_values(vs) ==
    [name \in {vs[j].name : j \in 1..Len(vs)} |->
        LET last == CHOOSE j \in 1..Len(vs) :
                        vs[j].name = name /\ \A q \in (j + 1)..Len(vs) : vs[q].name # name
        IN  vs[last].default_value]

IncludeKeywords ==
    << <<"s","h","o","w","_">>, <<"e","n","a","b","l","e","_">>,
       <<"h","a","s","_">>, <<"i","s","_">>, <<"f","i","l","t","e","r","_">>,
       <<"i","n","c","l","u","d","e","_">>, <<"!","=">>, <<">","=">>,
       <<"<","=">>, <<">">>, <<"<">>, <<"n","o","t"," ","n","u","l","l">>,
       <<"i","s"," ","n","o","t">>, <<"l","i","m","i","t">>,
       <<"o","f","f","s","e","t">>, <<"o","r","d","e","r">>,
       <<"g","r","o","u","p">>, <<"w","h","e","r","e">> >>
ExcludeKeywords ==
    << <<"d","e","b","u","g">>, <<"d","e","v">>, <<"t","e","s","t">>,
       <<"d","e","v","e","l","o","p","m","e","n","t">>,
       <<"v","e","r","b","o","s","e">>, <<"l","o","g","g","i","n","g">>,
       <<"t","r","a","c","e">> >>

\* as _should_include_condition_for_demo, with the include keywords first
_should_include_keywords_first(condition) ==
    LET condition_lower == LowerStr(condition)
    IN  IF \E j \in 1..Len(IncludeKeywords) :
               StrContains(condition_lower, IncludeKeywords[j])
        THEN TRUE
        ELSE ~\E j \in 1..Len(ExcludeKeywords) :
                  StrContains(condition_lower, ExcludeKeywords[j])

_should_include_condition_for_demo(condition) ==
    LET condition_lower == LowerStr(condition)
    IN  IF \E j \in 1..Len(ExcludeKeywords) :
               StrContains(condition_lower, ExcludeKeywords[j])
        THEN FALSE
        ELSE IF \E j \in 1..Len(IncludeKeywords) :
                    StrContains(condition_lower, IncludeKeywords[j])
        THEN TRUE
        ELSE TRUE

-----------------------------------------------------------------------------
(* _simplify_conditionals_for_demo: the regular-expression passes that     *)
(* follow the line scan.                                                   *)

\* a match of r'\{%\s*endif\s*%\}'
IsEndifTag(a) == a.k = "endif"
NotIfTag(a) == ~IsIfTag(a)
NotEndifTag(a) == ~IsEndifTag(a)

\* re.sub(r'\{%\s*if\s+([^%]+?)\s*%\}', '', text)
RemoveIfTags(text) == SelectSeq(text, NotIfTag)

\* re.sub(r'\{%\s*endif\s*%\}', '', text)
RemoveEndifTags(text) == SelectSeq(text, NotEndifTag)

\* the position of the first '{% endif' (in either spelling) after p, 0 if
\* there is none: the lookahead (?=\{%\s*endif)
RECURSIVE NextEndif(_, _)
NextEndif(text, p) ==
    IF p > Len(text) THEN 0
    ELSE IF text[p].k = "endif" THEN p
    ELSE NextEndif(text, p + 1)

\* re.sub(r'\{%\s*else\s*%.*?(?=\{%\s*endif)', '', text, flags=re.DOTALL)  and
\* re.sub(r'\{%\s*elif\s+[^%]+?\s*%.*?(?=\{%\s*endif)', '', ...): a tag of the
\* kind and what follows it are removed up to the next endif tag; a tag no
\* endif tag follows is not matched
RECURSIVE RemoveBranchFrom(_, _, _)
RemoveBranchFrom(text, kind, p) ==
    IF p > Len(text) THEN <<>>
    ELSE IF text[p].k = kind /\ NextEndif(text, p + 1) # 0
    THEN RemoveBranchFrom(text, kind, NextEndif(text, p + 1))
    ELSE <<text[p]>> \o RemoveBranchFrom(text, kind, p + 1)

RemoveBranch(text, kind) == RemoveBranchFrom(text, kind, 1)

\* the last position of the run of blanks and newlines that starts at p
RECURSIVE SpaceRunEnd(_, _)
SpaceRunEnd(text, p) ==
    IF p < Len(text) /\ IsSpace(text[p + 1]) THEN SpaceRunEnd(text, p + 1) ELSE p

NewlinesIn(text, p, e) == Cardinality({j \in p..e : text[j].k = "nl"})

\* re.sub(r'\n\s*\n\s*\n', '\n\n', text): in a run of blanks and newlines,
\* the part from a newline to the last newline, when it holds three newlines
\* or more, becomes two newlines
RECURSIVE CollapseFrom(_, _)
CollapseFrom(text, p) ==
    IF p > Len(text) THEN <<>>
    ELSE IF text[p].k = "nl"
    THEN LET e == SpaceRunEnd(text, p)
             r == CHOOSE j \in p..e :
                      text[j].k = "nl" /\ \A q \in (j + 1)..e : text[q].k # "nl"
         IN  IF NewlinesIn(text, p, e) >= 3
             THEN <<NL, NL>> \o CollapseFrom(text, r + 1)
             ELSE <<text[p]>> \o CollapseFrom(text, p + 1)
    ELSE <<text[p]>> \o CollapseFrom(text, p + 1)

CollapseBlankLines(text) == CollapseFrom(text, 1)

\* ^ and $ under re.MULTILINE
AtLineStart(text, p) == p = 1 \/ text[p - 1].k = "nl"
AtLineEnd(text, p) == p > Len(text) \/ text[p].k = "nl"

\* re.sub(r'^\s+|\s+$', '', text, flags=re.MULTILINE), scanning from the left:
\* at a line start the whole run of blanks and newlines is removed; elsewhere
\* the longest part of the run that ends at a line end is removed
RECURSIVE TrimFrom(_, _)
TrimFrom(text, p) ==
    IF p > Len(text) THEN <<>>
    ELSE IF ~IsSpace(text[p]) THEN <<text[p]>> \o TrimFrom(text, p + 1)
    ELSE LET e == SpaceRunEnd(text, p)
             ends == {j \in p..e : AtLineEnd(text, j + 1)}
             last == CHOOSE j \in ends : \A q \in ends : q <= j
         IN  IF AtLineStart(text, p) THEN TrimFrom(text, e + 1)
             ELSE IF ends # {} THEN TrimFrom(text, last + 1)
             ELSE <<text[p]>> \o TrimFrom(text, p + 1)

TrimLines(text) == TrimFrom(text, 1)

\* str.strip() on text
RECURSIVE Strip(_)
Strip(text) ==
    IF text = <<>> THEN text
    ELSE IF IsSpace(Head(text)) THEN Strip(Tail(text))
    ELSE IF IsSpace(text[Len(text)]) THEN Strip(SubSeq(text, 1, Len(text) - 1))
    ELSE text

\* lines 337-349: join the output lines, strip the remaining tags, clean up
\* the white space
FallbackCleanup(out) ==
    LET r0 == Join(out)
        r1 == RemoveIfTags(r0)
        r2 == RemoveEndifTags(r1)
        r3 == RemoveBranch(r2, "else")
        r4 == RemoveBranch(r3, "elif")
        r5 == CollapseBlankLines(r4)
        r6 == TrimLines(r5)
    IN  Strip(r6)

-----------------------------------------------------------------------------
(* _render_template                                                        *)

\* the test of line 230: the stripped line is not empty and does not start
\* with '{#'
KeepRenderedLine(line) ==
    LET stripped == Strip(line)
    IN  stripped # <<>> /\ stripped[1].k # "comment"

\* as CleanedLines, but the stripped line is what is kept
RECURSIVE CleanedLinesStripped(_)
CleanedLinesStripped(ls) ==
    IF ls = <<>> THEN <<>>
    ELSE IF KeepRenderedLine(Head(ls))
    THEN <<Strip(Head(ls))>> \o CleanedLinesStripped(Tail(ls))
    ELSE CleanedLinesStripped(Tail(ls))

\* lines 225-231: the lines that pass the test of line 230, as they are
RECURSIVE CleanedLines(_)
CleanedLines(ls) ==
    IF ls = <<>> THEN <<>>
    ELSE IF KeepRenderedLine(Head(ls)) THEN <<Head(ls)>> \o CleanedLines(Tail(ls))
    ELSE CleanedLines(Tail(ls))

\* as _render_template, but the text returned after a failure goes through
\* the line clean-up too
_render_template_cleaning(text, values, engine_fault) ==
    LET rendered == EngineRender(text, values)
    IN  IF engine_fault \/ ~rendered.ok THEN Join(CleanedLines(Split(text)))
        ELSE Join(CleanedLines(Split(rendered.out)))

\* engine_fault: the engine raises for a reason of its own
_render_template(text, values, engine_fault) ==
    LET rendered == EngineRender(text, values)
    IN  IF engine_fault \/ ~rendered.ok THEN text
        ELSE Join(CleanedLines(Split(rendered.out)))

-----------------------------------------------------------------------------
(* The templates analysed.                                                 *)

\* "SELECT * FROM users WHERE id = {{ user_id }}"
ScenarioA == <<Txt("SELECT * FROM users WHERE id ="), SP, Expr(n_user_id)>>
\* "SELECT * FROM t WHERE a=1 {% if debug_mode %} AND dbg=1{% endif %}"
ScenarioB == <<Txt("SELECT * FROM t WHERE a=1"), SP, If(n_debug_mode), SP,
               Txt("AND dbg=1"), Endif>>
\* "{% if limit_count %}LIMIT {{ limit_count }}{% endif %}"
ScenarioC == <<If(n_limit_count), Txt("LIMIT"), SP, Expr(n_limit_count), Endif>>
\* "SELECT {{ x"
ScenarioD == <<Txt("SELECT"), SP, OpenExpr(n_x)>>
\* "{% if is_admin %}A{% if show_extra %}B{% endif %}{% endif %}"
ScenarioE == <<If(n_is_admin), Txt("A"), If(n_show_extra), Txt("B"), Endif, Endif>>

Scenarios == {ScenarioA, ScenarioB, ScenarioC, ScenarioD, ScenarioE}

\* "{% if show_extra %}B{% else %}C{% endif %}" : a block written on one line
OneLineBlock == <<If(n_show_extra), Txt("B"), Else, Txt("C"), Endif>>

\* the lines the other templates are made of
LineKinds ==
    { <<If(n_is_admin)>>,
      <<If(n_debug_mode)>>,
      <<Elif(n_x)>>,
      <<Else>>,
      <<Endif>>,
      <<Txt("a = 1")>>,
      <<Txt("id ="), SP, Expr(n_user_id)>>,
      <<Expr(e_user_profile_name)>>,
      OneLineBlock,
      <<>> }

LineSeqs == UNION { [1..n -> LineKinds] : n \in 1..MaxLines }

\* templates for the cases the line templates lack
Extra ==
    [ \* "{% if show_extra %}{{ user_id }}{% endif %}{% if is_admin %}{{ is_admin }}{% endif %}"
      \* : a name in a guard only, one in an expression only, one in both
      TwiceFound |-> <<If(n_show_extra), Expr(n_user_id), Endif,
                       If(n_is_admin), Expr(n_is_admin), Endif>>,
      \* "{{ limit }} {{ offset }} {{ active }} {{ date }} {{ name }} {{ has_orders }}"
      EveryType |-> <<Expr(Name.limit), SP, Expr(Name.offset), SP, Expr(Name.active), SP,
                      Expr(Name.date), SP, Expr(Name.name), SP, Expr(Name.has_orders)>>,
      \* "{% for item in items %}{{ item }}{% endfor %}"
      Loop |-> <<For(Name.item \o <<" ","i","n"," ">> \o Name.items),
                 Expr(Name.item), Endfor>>,
      \* "{% for item in items %}{{ item }}" : the loop is never closed
      OpenLoop |-> <<For(Name.item \o <<" ","i","n"," ">> \o Name.items),
                     Expr(Name.item)>>,
      \* "{% set total = 1 %}{{ total }}" : no name is read from the caller
      SetOnly |-> <<Set(Name.total), Expr(Name.total)>>,
      \* "{% set total = 1 %}{{ total }} {{ user_id }}"
      SetAndRead |-> <<Set(Name.total), Expr(Name.total), SP, Expr(n_user_id)>>,
      \* "{% set total = 1 %}{% if total %}{{ user_id }}{% endif %}"
      SetAndGuard |-> <<Set(Name.total), If(Name.total), Expr(n_user_id), Endif>>,
      \* an included block that holds a block written on one line, then an
      \* excluded block:
      \* "{% if is_admin %}\n{% if show_extra %}B{% else %}C{% endif %}\n{% endif %}\n
      \*  {% if debug_mode %}\na = 1\n{% endif %}"
      OneLineThenExcluded |->
          Join(<< <<If(n_is_admin)>>, OneLineBlock, <<Endif>>,
                  <<If(n_debug_mode)>>, <<Txt("a = 1")>>, <<Endif>> >>),
      \* an excluded block that holds a block written on one line, then a
      \* plain line:
      \* "{% if debug_mode %}\n{% if show_extra %}B{% else %}C{% endif %}\n{% endif %}\na = 1"
      ExcludedThenPlain |->
          Join(<< <<If(n_debug_mode)>>, OneLineBlock, <<Endif>>, <<Txt("a = 1")>> >>),
      \* an else branch that holds a block of its own:
      \* "{% if is_admin %}\nid = {{ user_id }}\n{% else %}\n{% if debug_mode %}\n
      \*  {{ user.profile.name }}\n{% endif %}\na = 1\n{% endif %}"
      BlockInElse |->
          Join(<< <<If(n_is_admin)>>, <<Txt("id ="), SP, Expr(n_user_id)>>, <<Else>>,
                  <<If(n_debug_mode)>>, <<Expr(e_user_profile_name)>>, <<Endif>>,
                  <<Txt("a = 1")>>, <<Endif>> >>),
      \* a block with an exclude guard inside an included block:
      \* "{% if is_admin %}\n{% if debug_mode %}\na = 1\n{% endif %}\n{% endif %}"
      ExcludeGuardNested |->
          Join(<< <<If(n_is_admin)>>, <<If(n_debug_mode)>>, <<Txt("a = 1")>>,
                  <<Endif>>, <<Endif>> >>),
      \* "{%if is_admin %}\n  a = 1  \n{% endif %}" : an if tag without the blank
      TightIf |->
          Join(<< <<IfTight(n_is_admin)>>, <<SP, SP, Txt("a = 1"), SP, SP>>,
                  <<Endif>> >>),
      \* "a = 1 \n{%- if show_extra %} B{% endif %}\n" : an if tag that trims
      \* the text before it
      DashIf |->
          Join(<< <<Txt("a = 1"), SP>>, <<IfDash(n_show_extra), SP, Txt("B"), Endif>>,
                  <<>> >>),
      \* "{% if %}\na = 1\n{% endif %}" : an if tag with no guard
      NoGuard |-> Join(<< <<If(<<>>)>>, <<Txt("a = 1")>>, <<Endif>> >>),
      \* "{{ id }} {{ ID }} {{ id2 }} {{ created_at }} {{ is_active }} {{ is_ }}
      \*  {{ end }} {{ limit_count }}" : keywords alone and inside longer names
      Names |-> <<Expr(n_id), SP, Expr(Name.ID), SP, Expr(Name.id2), SP,
                  Expr(Name.created_at), SP, Expr(Name.is_active), SP,
                  Expr(Name.is_), SP, Expr(Name.end), SP, Expr(n_limit_count)>> ]

\* guards for the include/exclude decision: an include and an exclude
\* keyword, an exclude keyword inside a word, an upper-case letter, neither
Guards == {Name.is_debug, Name.latest, Name.Dev_mode, Name.status}

\* "{% if <guard> %}\na = 1\n{% endif %}"
Guarded(g) == Join(<< <<If(g)>>, <<Txt("a = 1")>>, <<Endif>> >>)

Extras == { Extra[f] : f \in DOMAIN Extra } \cup { Guarded(g) : g \in Guards }

Templates == Scenarios \cup Extras \cup { Join(ls) : ls \in LineSeqs }

-----------------------------------------------------------------------------
(* ProcessResult                                                           *)

NoResult == [returned |-> FALSE]

ProcessResult(success, vs, demo_sql, error, conditionals, loops) ==
    [returned |-> TRUE, success |-> success, variables |-> vs,
     demo_sql |-> demo_sql, error |-> error,
     has_conditionals |-> conditionals, has_loops |-> loops]

\* as SyntaxErrorText, without the line number
SyntaxErrorTextNoLine(e) ==
    [prefix |-> "Template syntax error", message |-> e.message, lineno |-> 0]

\* f"Template syntax error: {e.message} at line {e.lineno}"
SyntaxErrorText(e) ==
    [prefix |-> "Template syntax error", message |-> e.message, lineno |-> e.lineno]

\* f"Processing error: {str(e)}"
ProcessingErrorText(e) ==
    [prefix |-> "Processing error", message |-> e, lineno |-> 0]

\* as SyntaxErrorResult, but the syntax error is tolerated and the template
\* is shown as it is
SyntaxErrorTolerated(e) ==
    ProcessResult(TRUE, <<>>, Some(template_content), None, FALSE, FALSE)

\* as SyntaxErrorResult, with the flags of the text
SyntaxErrorWithFlags(e) ==
    ProcessResult(FALSE, <<>>, None, Some(SyntaxErrorText(e)),
                  HasTagPrefix(template_content, "if")
                      \/ HasTagPrefix(template_content, "elif"),
                  HasTagPrefix(template_content, "for"))

\* lines 90-95
SyntaxErrorResult(e) ==
    ProcessResult(FALSE, <<>>, None, Some(SyntaxErrorText(e)), FALSE, FALSE)

\* as ProcessingErrorResult, but with the variables found so far
ProcessingErrorKeepsVariables(e) ==
    ProcessResult(FALSE, variables, None, Some(ProcessingErrorText(e)), FALSE, FALSE)

\* lines 96-101
ProcessingErrorResult(e) ==
    ProcessResult(FALSE, <<>>, None, Some(ProcessingErrorText(e)), FALSE, FALSE)

\* as SuccessResult, but an empty demo SQL is reported as no demo SQL
SuccessResultEmptyAsNone(vs, demo_sql, conditionals, loops) ==
    ProcessResult(TRUE, vs, IF demo_sql = <<>> THEN None ELSE Some(demo_sql), None,
                  conditionals, loops)

\* lines 82-88
SuccessResult(vs, demo_sql, conditionals, loops) ==
    ProcessResult(TRUE, vs, Some(demo_sql), None, conditionals, loops)

-----------------------------------------------------------------------------
(* analyze_template, step by step.                                         *)

Init ==
    /\ entry \in {"analyze_template", "_simplify_conditionals_for_demo"}
    /\ template_content \in Templates
    /\ pc = IF entry = "analyze_template" THEN "start" ELSE "simplify"
    /\ undefined_vars = {}
    /\ variables = <<>>
    /\ has_conditionals = FALSE
    /\ has_loops = FALSE
    /\ demo_values = <<>>
    /\ lines = <<>>
    /\ output_lines = <<>>
    /\ i = 0
    /\ nesting_level = 0
    /\ block_content = <<>>
    /\ simplified_template = <<>>
    /\ result = NoResult
    /\ raised = <<>>
    /\ ran = <<>>
    /\ overrides = <<>>
    /\ earlier = <<>>

scanVars == <<lines, output_lines, i, nesting_level, block_content>>

\* lines 63-66: the engine parses the template
Parse ==
    /\ pc = "start"
    /\ ran' = Append(ran, "parse")
    /\ LET ast == EngineParse(template_content)
       IN  IF ast.ok
           THEN /\ undefined_vars' = EngineUndeclared(template_content)
                /\ pc' = "extract"
                /\ UNCHANGED <<result, raised>>
           ELSE /\ result' = SyntaxErrorResult(ast)
                /\ raised' = Append(raised, <<"parse", "TemplateSyntaxError">>)
                /\ pc' = "done"
                /\ UNCHANGED undefined_vars
    /\ UNCHANGED <<entry, overrides, earlier, template_content, variables, has_conditionals, has_loops,
                   demo_values, simplified_template>>
    /\ UNCHANGED scanVars

StageAt(p) ==
    CASE p = "start" -> "parse"
      [] p = "extract" -> "extract"
      [] OTHER -> "simplify"

\* lines 96-101: an exception that is no TemplateSyntaxError (a MemoryError,
\* a RecursionError, ...) leaves the try block before the renderer is called
Unexpected ==
    /\ entry = "analyze_template"
    /\ pc \in {"start", "extract", "simplify"}
    /\ ran' = Append(ran, StageAt(pc))
    /\ raised' = Append(raised, <<StageAt(pc), "Exception">>)
    /\ result' = ProcessingErrorResult("unexpected")
    /\ pc' = "done"
    /\ UNCHANGED <<entry, overrides, earlier, template_content, undefined_vars, variables, has_conditionals,
                   has_loops, demo_values, simplified_template>>
    /\ UNCHANGED scanVars

\* as HasConditionals, but an if or elif tag counts in every spelling
HasConditionalsAnySpelling(text) ==
    \E j \in 1..Len(text) : text[j].k \in {"if", "elif"}

\* line 69: "{% if" in template_content or "{% elif" in template_content
HasConditionals(text) == HasTagPrefix(text, "if") \/ HasTagPrefix(text, "elif")

\* lines 67-77: the variables, the two flags, the demo values
Extract ==
    /\ pc = "extract"
    /\ ran' = Append(ran, "extract")
    /\ variables' = _extract_variables(template_content, undefined_vars)
    /\ has_conditionals' = HasConditionals(template_content)
    /\ has_loops' = HasTagPrefix(template_content, "for")
    /\ demo_values' = _generate_demo_values(variables')
    /\ IF has_conditionals'
       THEN pc' = "simplify" /\ UNCHANGED simplified_template
       ELSE pc' = "render" /\ simplified_template' = template_content
    /\ UNCHANGED <<entry, overrides, earlier, template_content, undefined_vars, result, raised>>
    /\ UNCHANGED scanVars

-----------------------------------------------------------------------------
(* _simplify_conditionals_for_demo: the line scan of lines 265-335.        *)

\* re.search(r'\{%\s*if\s+(.+?)\s*%}', line): the guard of the first if tag
\* of the line that has one, None when the line has no such tag
RECURSIVE ConditionMatch(_, _)
ConditionMatch(line, j) ==
    IF j > Len(line) THEN None
    ELSE IF IsIfTag(line[j]) THEN Some(line[j].g)
    ELSE ConditionMatch(line, j + 1)

\* lines 265-267
StartScan ==
    /\ pc = "simplify"
    /\ ran' = Append(ran, "simplify")
    /\ lines' = Split(template_content)
    /\ output_lines' = <<>>
    /\ i' = 0
    /\ pc' = "scan"
    /\ UNCHANGED <<entry, overrides, earlier, template_content, undefined_vars, variables, has_conditionals,
                   has_loops, demo_values, nesting_level, block_content,
                   simplified_template, result, raised>>

\* one iteration of the outer loop, lines 268-335, up to the start of the
\* inner loop it may enter
ScanLine ==
    /\ pc = "scan"
    /\ i < Len(lines)
    /\ LET line == lines[i + 1]
           condition_match == ConditionMatch(line, 1)
       IN  IF HasTagPrefix(line, "if") /\ ~condition_match.none
           THEN LET condition == StripChars(condition_match.v)
                    should_include == _should_include_condition_for_demo(condition)
                IN  /\ i' = i + 1
                    /\ nesting_level' = 0
                    /\ block_content' = IF should_include THEN <<>> ELSE block_content
                    /\ pc' = IF i + 1 >= Len(lines) THEN "scan"
                             ELSE IF should_include THEN "incl" ELSE "excl"
                    /\ UNCHANGED output_lines
           ELSE /\ output_lines' = Append(output_lines, line)
                /\ i' = i + 1
                /\ UNCHANGED <<pc, nesting_level, block_content>>
    /\ UNCHANGED <<entry, overrides, earlier, template_content, undefined_vars, variables, has_conditionals,
                   has_loops, demo_values, lines, simplified_template, result,
                   raised, ran>>

\* as Extend, but the items are added twice
ExtendTwice(list, items) == list \o items \o items

\* line 313: output_lines.extend(block_content)
Extend(list, items) == list \o items

\* as Collect, but a nested if line whose guard is classified exclude is
\* left out
CollectClassified(block, current_line) ==
    IF /\ Len(current_line) = 1
       /\ IsIfTag(current_line[1])
       /\ ~_should_include_condition_for_demo(StripChars(current_line[1].g))
    THEN block
    ELSE Append(block, current_line)

\* line 309: block_content.append(current_line), whatever the line holds
Collect(block, current_line) == Append(block, current_line)

\* one iteration of the loop of an included block, lines 287-310, and
\* line 313 when the loop ends
InclStep ==
    /\ pc = "incl"
    /\ LET current_line == lines[i + 1]
           is_if == HasTagPrefix(current_line, "if")
           is_endif == ~is_if /\ HasTagPrefix(current_line, "endif")
           is_branch == /\ ~is_if /\ ~is_endif
                        /\ (HasTagPrefix(current_line, "else")
                            \/ HasTagPrefix(current_line, "elif"))
       IN  IF is_endif /\ nesting_level = 0
           THEN \* skip the endif line and leave the loop
                /\ i' = i + 1
                /\ output_lines' = Extend(output_lines, block_content)
                /\ pc' = "scan"
                /\ UNCHANGED <<nesting_level, block_content>>
           ELSE IF is_branch /\ nesting_level = 0
           THEN \* skip the else/elif line, then skip to the endif
                /\ i' = i + 1
                /\ pc' = "skip_else"
                /\ UNCHANGED <<nesting_level, block_content, output_lines>>
           ELSE /\ nesting_level' = IF is_if THEN nesting_level + 1
                                    ELSE IF is_endif THEN nesting_level - 1
                                    ELSE nesting_level
                /\ block_content' = Collect(block_content, current_line)
                /\ i' = i + 1
                /\ IF i + 1 < Len(lines)
                   THEN pc' = "incl" /\ UNCHANGED output_lines
                   ELSE pc' = "scan" /\ output_lines' = Extend(output_lines, block_content')
    /\ UNCHANGED <<entry, overrides, earlier, template_content, undefined_vars, variables, has_conditionals,
                   has_loops, demo_values, lines, simplified_template, result,
                   raised, ran>>

\* as SkipElseStep, but the skip waits for an endif at the end of the text
SkipElseStepWaiting ==
    /\ pc = "skip_else"
    /\ IF i < Len(lines) /\ ~HasTagPrefix(lines[i + 1], "endif")
       THEN /\ i' = i + 1
            /\ UNCHANGED <<pc, output_lines>>
       ELSE IF i < Len(lines)
       THEN /\ i' = i + 1
            /\ output_lines' = Extend(output_lines, block_content)
            /\ pc' = "scan"
       ELSE UNCHANGED <<i, pc, output_lines>>
    /\ UNCHANGED <<entry, overrides, earlier, template_content, undefined_vars, variables, has_conditionals,
                   has_loops, demo_values, lines, nesting_level, block_content,
                   simplified_template, result, raised, ran>>

\* lines 303-307 and 313: skip to the endif that ends the else branch
SkipElseStep ==
    /\ pc = "skip_else"
    /\ IF i < Len(lines) /\ ~HasTagPrefix(lines[i + 1], "endif")
       THEN /\ i' = i + 1
            /\ UNCHANGED <<pc, output_lines>>
       ELSE /\ i' = IF i < Len(lines) THEN i + 1 ELSE i
            /\ output_lines' = Extend(output_lines, block_content)
            /\ pc' = "scan"
    /\ UNCHANGED <<entry, overrides, earlier, template_content, undefined_vars, variables, has_conditionals,
                   has_loops, demo_values, lines, nesting_level, block_content,
                   simplified_template, result, raised, ran>>

\* one iteration of the loop of an excluded block, lines 318-327
ExclStep ==
    /\ pc = "excl"
    /\ LET is_if == HasTagPrefix(lines[i + 1], "if")
           is_endif == ~is_if /\ HasTagPrefix(lines[i + 1], "endif")
       IN  IF is_endif /\ nesting_level = 0
           THEN /\ i' = i + 1
                /\ pc' = "scan"
                /\ UNCHANGED nesting_level
           ELSE /\ nesting_level' = IF is_if THEN nesting_level + 1
                                    ELSE IF is_endif THEN nesting_level - 1
                                    ELSE nesting_level
                /\ i' = i + 1
                /\ pc' = IF i + 1 < Len(lines) THEN "excl" ELSE "scan"
    /\ UNCHANGED <<entry, overrides, earlier, template_content, undefined_vars, variables, has_conditionals,
                   has_loops, demo_values, lines, output_lines, block_content,
                   simplified_template, result, raised, ran>>

\* lines 337-349, and the return to line 77
FinishScan ==
    /\ pc = "scan"
    /\ i >= Len(lines)
    /\ simplified_template' = FallbackCleanup(output_lines)
    /\ pc' = IF entry = "analyze_template" THEN "render" ELSE "done"
    /\ UNCHANGED <<entry, overrides, earlier, template_content, undefined_vars, variables, has_conditionals,
                   has_loops, demo_values, result, raised, ran>>
    /\ UNCHANGED scanVars

\* lines 80-88: render the demo SQL and return
Render ==
    /\ pc = "render"
    /\ ran' = Append(ran, "render")
    /\ \E engine_fault \in BOOLEAN :
        LET rendered == EngineRender(simplified_template, demo_values)
            demo_sql == _render_template(simplified_template, demo_values, engine_fault)
        IN  /\ raised' =
                   IF engine_fault
                   THEN Append(raised, <<"render", "Exception">>)
                   ELSE IF ~EngineParse(simplified_template).ok
                   THEN Append(raised, <<"render", "TemplateSyntaxError">>)
                   ELSE IF ~rendered.ok
                   THEN Append(raised, <<"render", "UndefinedError">>)
                   ELSE raised
            /\ result' = SuccessResult(variables, demo_sql, has_conditionals, has_loops)
    /\ pc' = "done"
    /\ UNCHANGED <<entry, overrides, earlier, template_content, undefined_vars, variables, has_conditionals,
                   has_loops, demo_values, simplified_template>>
    /\ UNCHANGED scanVars

\* as OverrideVariables, but a key that names no variable adds an entry
OverrideVariablesAdding(vs, values) ==
    LET named == {vs[j].name : j \in 1..Len(vs)}
        replaced == [j \in 1..Len(vs) |->
                        IF vs[j].name \in DOMAIN values
                        THEN [vs[j] EXCEPT !.default_value = values[vs[j].name]]
                        ELSE vs[j]]
        unknown == DOMAIN values \ named
    IN  IF unknown = {} THEN replaced
        ELSE LET name == CHOOSE k \in unknown : TRUE
             IN  Append(replaced, VariableInfo(name, "string", values[name]))

\* main, lines 406-410: the values of the request replace the default_value
\* of the variables they name
OverrideVariables(vs, values) ==
    IF DOMAIN values = {} THEN vs
    ELSE [j \in 1..Len(vs) |->
             IF vs[j].name \in DOMAIN values
             THEN [vs[j] EXCEPT !.default_value = values[vs[j].name]]
             ELSE vs[j]]

\* the "variables" objects of the requests: none, one variable, one variable
\* and a name no template uses, a boolean
OverrideMaps ==
    { <<>>,
      (n_user_id :> PyInt(7)),
      (n_user_id :> PyInt(7)) @@ (n_tenant :> PyStr("acme")),
      (n_is_admin :> PyBool(FALSE)) }

\* main, lines 403-410, after analyze_template has returned at line 404
Override ==
    /\ entry = "analyze_template"
    /\ pc = "done"
    /\ \E values \in OverrideMaps :
        /\ overrides' = values
        /\ result' = [result EXCEPT
                          !.variables = OverrideVariables(result.variables, values)]
    /\ pc' = "main_done"
    /\ UNCHANGED <<entry, earlier, template_content, undefined_vars, variables,
                   has_conditionals, has_loops, demo_values, simplified_template,
                   raised, ran>>
    /\ UNCHANGED scanVars

Next ==
    \/ Parse
    \/ Unexpected
    \/ Extract
    \/ StartScan
    \/ ScanLine
    \/ InclStep
    \/ SkipElseStep
    \/ ExclStep
    \/ FinishScan
    \/ Render
    \/ Override

Spec == Init /\ [][Next]_vars

\* the calls of _simplify_conditionals_for_demo alone, each running on until
\* it returns
ScanLineKinds ==
    { <<If(n_is_admin)>>, <<If(n_debug_mode)>>, <<Else>>, <<Endif>>,
      <<Txt("a = 1")>>, OneLineBlock }
ScanTemplates ==
    { Join(ls) : ls \in UNION { [1..n -> ScanLineKinds] : n \in 1..MaxLines } }
        \cup {Extra.NoGuard, Extra.BlockInElse, Extra.OneLineThenExcluded}
InitScan ==
    /\ Init
    /\ entry = "_simplify_conditionals_for_demo"
    /\ template_content \in ScanTemplates
NextScan ==
    \/ StartScan
    \/ ScanLine
    \/ InclStep
    \/ SkipElseStep
    \/ ExclStep
    \/ FinishScan
ScanLoops == ScanLine \/ InclStep \/ SkipElseStep \/ ExclStep
SpecScan == InitScan /\ [][NextScan]_vars /\ WF_vars(ScanLoops)

\* the calls of analyze_template alone
InitAnalyze == Init /\ entry = "analyze_template"
SpecAnalyze == InitAnalyze /\ [][Next]_vars

\* templates for the calls that follow one another on one processor: plain,
\* with a one-line block, malformed, with names found twice, with an
\* excluded block, with an included block, with an else branch
RepeatTemplates ==
    { ScenarioA, ScenarioC, ScenarioD, Extra.TwiceFound, Guarded(Name.is_debug),
      Join(<< <<If(n_is_admin)>>, <<Txt("id ="), SP, Expr(n_user_id)>>, <<Endif>> >>),
      Join(<< <<If(n_is_admin)>>, <<Else>>, <<Endif>> >>) }

\* the next call of analyze_template on the same processor (the instance of
\* line 392): the call that has returned is remembered in earlier, the
\* second call takes any template, the third the template of the first.
\* What the locals of the call before held is left where it is; the
\* method's own assignments have to replace it.
Call ==
    /\ entry = "analyze_template"
    /\ pc \in {"done", "main_done"}
    /\ Len(earlier) < 2
    /\ earlier' = Append(earlier,
                         [template |-> template_content,
                          overridden |-> pc = "main_done",
                          overrides |-> overrides,
                          result |-> result,
                          injected |-> \E j \in 1..Len(raised) : raised[j][2] = "Exception"])
    /\ template_content' \in
           IF earlier = <<>> THEN RepeatTemplates ELSE {earlier[1].template}
    /\ pc' = "start"
    /\ result' = NoResult
    /\ overrides' = <<>>
    /\ raised' = <<>>
    /\ ran' = <<>>
    /\ UNCHANGED <<entry, undefined_vars, variables, has_conditionals, has_loops,
                   demo_values, simplified_template>>
    /\ UNCHANGED scanVars

NextRepeat ==
    \/ Next
    \/ Call

\* several calls on one processor
InitRepeat == InitAnalyze /\ template_content \in RepeatTemplates
SpecRepeat == InitRepeat /\ [][NextRepeat]_vars

-----------------------------------------------------------------------------
(* Properties.                                                             *)

\* analyze_template has returned
Returned == entry = "analyze_template" /\ pc = "done"

\* the simplifier, called on its own, has returned
Simplified == entry = "_simplify_conditionals_for_demo" /\ pc = "done"

Raised(stage, kind) == \E j \in 1..Len(raised) : raised[j] = <<stage, kind>>
RaisedIn(stage) == \E j \in 1..Len(raised) : raised[j][1] = stage

\* an exception that does not come from the template itself was raised
Injected == \E j \in 1..Len(raised) : raised[j][2] = "Exception"

\* C1: the text the simplifier returns, and every non-null demo_sql, holds
\* no '{%' and no '%}'
TagFreedom ==
    /\ Simplified => ~HasTagDelimiter(simplified_template)
    /\ (Returned /\ ~result.demo_sql.none) => ~HasTagDelimiter(result.demo_sql.v)

\* C2 (scenario B): the guard debug_mode is excluded and the text before the
\* excluded block is kept: demo_sql = 'SELECT * FROM t WHERE a=1'
ScenarioBKeepsLeadingText ==
    (Returned /\ template_content = ScenarioB /\ ~Injected) =>
        /\ result.success
        /\ ~_should_include_condition_for_demo(n_debug_mode)
        /\ result.demo_sql = Some(<<Txt("SELECT * FROM t WHERE a=1")>>)

\* C3 (scenario C): the guard limit_count is included, the one variable is
\* limit_count: integer = 42, and demo_sql = 'LIMIT 42'
ScenarioCKeepsBlock ==
    (Returned /\ template_content = ScenarioC /\ ~Injected) =>
        /\ result.success
        /\ _should_include_condition_for_demo(n_limit_count)
        /\ result.variables = <<VariableInfo(n_limit_count, "integer", PyInt(42))>>
        /\ result.demo_sql = Some(<<Txt("LIMIT"), SP, Txt("42")>>)

\* C4 (scenario E): the outer block is kept, the inner tags are stripped and
\* the inner content stays: demo_sql = 'AB'
ScenarioEKeepsNested ==
    (Returned /\ template_content = ScenarioE /\ ~Injected) =>
        /\ result.success
        /\ result.demo_sql = Some(<<Txt("A"), Txt("B")>>)

\* C5 (scenario A): the one variable is user_id: integer = 42 and
\* demo_sql = 'SELECT * FROM users WHERE id = 42'
ScenarioAInteger ==
    (Returned /\ template_content = ScenarioA /\ ~Injected) =>
        /\ result.success
        /\ result.variables = <<VariableInfo(n_user_id, "integer", PyInt(42))>>
        /\ result.demo_sql =
               Some(<<Txt("SELECT * FROM users WHERE id ="), SP, Txt("42")>>)

\* C6 (scenario D), as claimed: for 'SELECT {{ x' the result has no
\* variables, has_conditionals = false and demo_sql equal to the input; the
\* unbalanced braces are not reported as an error
ScenarioDIgnored ==
    (Returned /\ template_content = ScenarioD /\ ~Injected) =>
        /\ result.success
        /\ result.variables = <<>>
        /\ result.has_conditionals = FALSE
        /\ result.demo_sql = Some(ScenarioD)
        /\ result.error = None

\* C6, amended: for 'SELECT {{ x' the engine's parse raises a syntax error;
\* the result is success = false with no variables, has_conditionals = false,
\* no demo_sql, and a template syntax error message for line 1
ScenarioDReported ==
    (Returned /\ template_content = ScenarioD /\ ~Injected) =>
        /\ ~result.success
        /\ result.variables = <<>>
        /\ result.has_conditionals = FALSE
        /\ result.demo_sql = None
        /\ ~result.error.none
        /\ result.error.v.prefix = "Template syntax error"
        /\ result.error.v.lineno = 1

ScenarioDWitness == Returned /\ template_content = ScenarioD /\ ~Injected

\* C7: when the engine's parse raises a syntax error, nothing but the parse
\* ran, and the result is success = false, no variables, no demo_sql, and an
\* error that holds the engine's message and line number
SyntaxErrorShortCircuits ==
    /\ (Returned /\ Raised("parse", "TemplateSyntaxError")) =>
          /\ ran = <<"parse">>
          /\ ~result.success
          /\ result.variables = <<>>
          /\ result.demo_sql = None
          /\ result.error =
                Some([prefix |-> "Template syntax error",
                      message |-> EngineParse(template_content).message,
                      lineno |-> EngineParse(template_content).lineno])
    /\ (Returned /\ ~EngineParse(template_content).ok /\ ~Raised("parse", "Exception"))
          => Raised("parse", "TemplateSyntaxError")

SyntaxErrorWitness ==
    /\ Returned
    /\ Raised("parse", "TemplateSyntaxError")
    /\ result.error.v.lineno = 2

\* C8, as claimed: any failure other than a template syntax error, raised in
\* any stage, rendering included, yields success = false, no variables and a
\* 'Processing error' message
EveryFailureIsProcessingError ==
    (Returned /\ \E j \in 1..Len(raised) : raised[j][2] # "TemplateSyntaxError") =>
        /\ ~result.success
        /\ result.variables = <<>>
        /\ ~result.error.none
        /\ result.error.v.prefix = "Processing error"

\* C8, amended: no failure reaches the caller; a failure other than a
\* template syntax error raised in parsing, extraction, inference or
\* simplification yields success = false, no variables and a 'Processing
\* error' message; a failure raised in rendering is absorbed by the renderer
\* and the result is success = true
FailuresAreContained ==
    /\ raised # <<>> => (pc \in {"done", "main_done"} /\ result # NoResult)
    /\ (Returned /\ \E j \in 1..Len(raised) :
            raised[j][1] # "render" /\ raised[j][2] # "TemplateSyntaxError") =>
          /\ ~result.success
          /\ result.variables = <<>>
          /\ result.demo_sql = None
          /\ ~result.error.none
          /\ result.error.v.prefix = "Processing error"
    /\ (Returned /\ RaisedIn("render")) => (result.success /\ result.error = None)

FailureWitness ==
    /\ Returned
    /\ raised = << <<"simplify", "Exception">> >>
    /\ variables # <<>>

\* C9: in every result, demo_sql is non-null exactly when success is true and
\* error is non-null exactly when success is false
DemoSqlIffSuccess ==
    Returned =>
        /\ ~result.demo_sql.none <=> result.success
        /\ ~result.error.none <=> ~result.success

\* a success whose demo SQL is the empty text
EmptyDemoSqlWitness ==
    Returned /\ result.success /\ result.demo_sql = Some(<<>>)

\* the text analyze_template hands to the renderer (line 77)
HandedToRenderer ==
    IF has_conditionals THEN simplified_template ELSE template_content

\* C10: when rendering fails after a successful parse, the result is
\* success = true, demo_sql is the text handed to the renderer, unchanged,
\* and the variables are those of the extraction
RenderFailureKeepsText ==
    (Returned /\ RaisedIn("render")) =>
        /\ result.success
        /\ result.demo_sql = Some(HandedToRenderer)
        /\ result.variables =
               _extract_variables(template_content, EngineUndeclared(template_content))
        /\ result.error = None

\* a failed rendering of a text that substitution and line clean-up would change
RenderFailureWitness ==
    /\ Returned
    /\ raised = << <<"render", "UndefinedError">> >>
    /\ result.variables # <<>>
    /\ Join(CleanedLines(Split(HandedToRenderer))) # HandedToRenderer
    /\ \E j \in 1..Len(HandedToRenderer) : HandedToRenderer[j].k = "expr"

\* main has applied the values of the request to the result
Overridden == entry = "analyze_template" /\ pc = "main_done"

\* the demo values with the values of the request in place of the
\* synthesized ones
OverriddenValues ==
    [name \in DOMAIN demo_values |->
        IF name \in DOMAIN overrides THEN overrides[name] ELSE demo_values[name]]

\* C11: the values of the request are applied before the demo rendering:
\* the demo_sql of the result main reports substitutes the value of the
\* request, not the synthesized one, for every variable the request names
OverridesReachDemoSql ==
    (Overridden /\ result.success /\ raised = <<>>) =>
        result.demo_sql = Some(_render_template(HandedToRenderer, OverriddenValues, FALSE))

\* C12: applying the values of a request to a result replaces default_value
\* for the variables the request names and nothing else: the other
\* variables' default_value, every variable's name, type and position, and
\* the other fields of the result stay; a key that names no variable adds no
\* entry and raises nothing
OverrideFrame ==
    [][(pc = "done" /\ pc' = "main_done") =>
        /\ Len(result'.variables) = Len(result.variables)
        /\ \A j \in 1..Len(result.variables) :
            LET before == result.variables[j]
                after == result'.variables[j]
            IN  /\ after.name = before.name
                /\ after.type = before.type
                /\ after.default_value =
                       IF before.name \in DOMAIN overrides'
                       THEN overrides'[before.name]
                       ELSE before.default_value
        /\ [result' EXCEPT !.variables = <<>>] = [result EXCEPT !.variables = <<>>]
        /\ raised' = raised]_vars

\* a request that names one of two variables and a name the template lacks
OverrideWitness ==
    /\ Overridden
    /\ Len(result.variables) = 2
    /\ \E j, k \in 1..2 :
        /\ result.variables[j].name \in DOMAIN overrides
        /\ result.variables[j].default_value = overrides[result.variables[j].name]
        /\ result.variables[k].name \notin DOMAIN overrides
    /\ \E name \in DOMAIN overrides :
        \A j \in 1..2 : result.variables[j].name # name

\* the name is the base variable of the expression at position j of the
\* template
InExpressionAt(j, name) ==
    /\ template_content[j].k = "expr"
    /\ template_content[j].g # <<>>
    /\ _extract_base_variable(StripChars(template_content[j].g)) = Some(name)

\* the name is a word of the if-guard at position j of the template
InGuardAt(j, name) ==
    /\ IsIfTag(template_content[j])
    /\ name \in SeqToSet(IdentTokens(template_content[j].g, 1))

OccursAtAll(j, name) == InExpressionAt(j, name) \/ InGuardAt(j, name)

\* the expression pass reports the name at position j
ReportedAt(j, name) ==
    InExpressionAt(j, name) /\ (undefined_vars = {} \/ name \in undefined_vars)

\* the first position where Op holds of the name, 0 if there is none
First(Op(_, _), name) ==
    IF \E j \in 1..Len(template_content) : Op(j, name)
    THEN CHOOSE j \in 1..Len(template_content) :
             Op(j, name) /\ \A q \in 1..(j - 1) : ~Op(q, name)
    ELSE 0

\* C14: the variables are listed in the order of their first occurrences, in
\* an expression or an if-guard, in the template text
ListedInTextOrder ==
    (Returned /\ result.success) =>
        \A j, k \in 1..Len(result.variables) :
            j < k => First(OccursAtAll, result.variables[j].name)
                         < First(OccursAtAll, result.variables[k].name)

\* C14, amended: the variables the expression pass reports come first, in
\* the order of their first reported expressions; the variables found in
\* if-guards only follow, in the order of their first guards
ListedByPassThenTextOrder ==
    (Returned /\ result.success) =>
        \A j, k \in 1..Len(result.variables) :
            LET a == result.variables[j].name
                b == result.variables[k].name
            IN  j < k =>
                  IF First(ReportedAt, a) # 0
                  THEN First(ReportedAt, b) # 0 =>
                           First(ReportedAt, a) < First(ReportedAt, b)
                  ELSE /\ First(ReportedAt, b) = 0
                       /\ First(InGuardAt, a) # 0
                       /\ First(InGuardAt, a) < First(InGuardAt, b)

\* a variable of a guard that opens the template is listed after the
\* variables of the expressions that follow it
GuardListedLastWitness ==
    /\ Returned
    /\ result.success
    /\ Len(result.variables) = 3
    /\ First(OccursAtAll, result.variables[3].name) = 1
    /\ First(ReportedAt, result.variables[1].name) > 1
    /\ First(ReportedAt, result.variables[2].name) > 1

\* C15: no two entries of the variable list share a name; a name found both
\* in an expression and in an if-guard has one entry, the one of the
\* expression pass: it stands among the entries of the expression pass,
\* before every entry of the conditional pass
NoVariableTwice ==
    (Returned /\ result.success) =>
        /\ \A j, k \in 1..Len(result.variables) :
               j # k => result.variables[j].name # result.variables[k].name
        /\ \A j \in 1..Len(result.variables) :
               (/\ First(ReportedAt, result.variables[j].name) # 0
                /\ First(InGuardAt, result.variables[j].name) # 0)
                   => \A k \in 1..(j - 1) :
                          First(ReportedAt, result.variables[k].name) # 0

\* a name found in an expression and in a guard is listed before the name of
\* an earlier guard
TwiceFoundWitness ==
    /\ Returned
    /\ result.success
    /\ \E j, k \in 1..Len(result.variables) :
        LET both == result.variables[j].name
            guarded == result.variables[k].name
        IN  /\ j < k
            /\ First(ReportedAt, both) # 0
            /\ First(InGuardAt, both) # 0
            /\ First(ReportedAt, guarded) = 0
            /\ First(InGuardAt, guarded) < First(InGuardAt, both)

\* the demo literal of a type
CanonicalLiteral(type) ==
    CASE type = "integer" -> PyInt(42)
      [] type = "boolean" -> PyBool(TRUE)
      [] type = "date"    -> PyStr("'2024-01-01'")
      [] OTHER            -> PyStr("'demo_value'")

\* C16: every variable analyze_template reports has one of the five types
\* and the demo literal of its type as default_value: 42 for an integer
\* (also when it is named limit or offset), True for a boolean, the quoted
\* '2024-01-01' for a date, the quoted 'demo_value' otherwise
DefaultsAreCanonical ==
    Returned =>
        \A j \in 1..Len(result.variables) :
            /\ result.variables[j].type \in {"integer", "boolean", "date", "string", "list"}
            /\ result.variables[j].default_value =
                   CanonicalLiteral(result.variables[j].type)

\* a result with a variable of each inferred type, and limit and offset
EveryTypeWitness ==
    /\ Returned
    /\ { result.variables[j].type : j \in 1..Len(result.variables) }
           = {"integer", "boolean", "date", "string"}
    /\ \E j, k \in 1..Len(result.variables) :
        /\ result.variables[j].name = Name.limit
        /\ result.variables[j].default_value = PyInt(42)
        /\ result.variables[k].name = Name.offset
        /\ result.variables[k].default_value = PyInt(42)

\* the template text contains "{% " followed by the tag name
TextHasTag(name) ==
    \E j \in 1..Len(template_content) :
        template_content[j].k = name /\ template_content[j].sp

\* C17: in every result, success or failure, has_conditionals says whether
\* the text contains '{% if' or '{% elif' and has_loops whether it contains
\* '{% for'
FlagsAlwaysExact ==
    Returned =>
        /\ result.has_conditionals <=> (TextHasTag("if") \/ TextHasTag("elif"))
        /\ result.has_loops <=> TextHasTag("for")

\* C17, amended: in every successful result has_conditionals says whether
\* the text contains '{% if' or '{% elif' and has_loops whether it contains
\* '{% for'; in every failure result both are false
FlagsExactOnSuccess ==
    Returned =>
        IF result.success
        THEN /\ result.has_conditionals <=> (TextHasTag("if") \/ TextHasTag("elif"))
             /\ result.has_loops <=> TextHasTag("for")
        ELSE ~result.has_conditionals /\ ~result.has_loops

\* a failure result for a text with a for tag
LoopFlagWitness ==
    /\ Returned
    /\ ~result.success
    /\ TextHasTag("for")
    /\ ~result.has_loops

\* the lower-cased guard contains debug, dev, test, development, verbose,
\* logging or trace
NamesExcludedConcern(condition) ==
    \E word \in { <<"d","e","b","u","g">>, <<"d","e","v">>, <<"t","e","s","t">>,
                   <<"d","e","v","e","l","o","p","m","e","n","t">>,
                   <<"v","e","r","b","o","s","e">>, <<"l","o","g","g","i","n","g">>,
                   <<"t","r","a","c","e">> } :
        StrContains(LowerStr(condition), word)

\* C18: the line scan takes the excluded path for a block exactly when the
\* lower-cased guard contains one of the exclude keywords, and the included
\* path otherwise, whatever include keywords the guard contains
ExcludeDecidesAlone ==
    [][(pc = "scan" /\ pc' \in {"incl", "excl"}) =>
        LET condition == StripChars(ConditionMatch(lines[i + 1], 1).v)
        IN  (pc' = "excl") <=> NamesExcludedConcern(condition)]_vars

\* the scan excludes the block of a guard that holds an include keyword
\* (is_) and an exclude keyword (debug)
ExcludePrecedenceWitness ==
    /\ pc = "excl"
    /\ i = 1
    /\ ConditionMatch(lines[1], 1) = Some(Name.is_debug)

\* the name begins with is_, has_, can_, should_ or will_
HasBooleanPrefix(name) ==
    \E prefix \in { <<"i","s","_">>, <<"h","a","s","_">>, <<"c","a","n","_">>,
                     <<"s","h","o","u","l","d","_">>, <<"w","i","l","l","_">> } :
        OccursAt(name, prefix, 1)

\* C19: a variable whose name begins with is_, has_, can_, should_ or will_
\* and holds no integer keyword has type boolean and the demo value True
BooleanPrefixTyped ==
    Returned =>
        \A j \in 1..Len(result.variables) :
            LET v == result.variables[j]
            IN  (HasBooleanPrefix(v.name) /\ ~SearchWords(LowerStr(v.name), IntegerWords))
                    => (v.type = "boolean" /\ v.default_value = PyBool(TRUE))

\* the names the template holds in expressions and in if-guards
NamesInText ==
    UNION { IF template_content[j].k = "expr"
            THEN { BeforeFirst(template_content[j].g, ".") }
            ELSE IF template_content[j].k = "if"
            THEN SeqToSet(IdentTokens(template_content[j].g, 1))
            ELSE {} : j \in 1..Len(template_content) }

\* C20: the variables reported are the base names of the expressions,
\* restricted to the engine's undeclared set when that set is not empty and
\* unrestricted when it is empty, together with the names of the if-guards,
\* which are never restricted
UndeclaredSetFiltersExpressions ==
    (Returned /\ result.success) =>
        { result.variables[j].name : j \in 1..Len(result.variables) } =
            { name \in NamesInText :
                \/ /\ First(InExpressionAt, name) # 0
                   /\ (undefined_vars = {} \/ name \in undefined_vars)
                \/ First(InGuardAt, name) # 0 }

\* the engine finds no undeclared name, and the name the template sets for
\* itself is reported
LocalNameReportedWitness ==
    /\ Returned
    /\ result.success
    /\ undefined_vars = {}
    /\ \E j \in 1..Len(template_content) :
        /\ template_content[j].k = "set"
        /\ \E k \in 1..Len(result.variables) :
               result.variables[k].name = template_content[j].g

\* analyze_template, or main with the values of a request, has returned
Completed == entry = "analyze_template" /\ pc \in {"done", "main_done"}

\* the earlier call j had the inputs of the present one, and neither met a
\* failure of the environment
SameInputs(j) ==
    /\ earlier[j].template = template_content
    /\ earlier[j].overridden = (pc = "main_done")
    /\ earlier[j].overrides = overrides
    /\ ~earlier[j].injected
    /\ ~Injected

\* C13: a call with the template and the values of an earlier call on the
\* same processor returns the result of that call, whatever was analysed
\* in between
SameInputsSameResult ==
    Completed =>
        \A j \in 1..Len(earlier) : SameInputs(j) => earlier[j].result = result

\* the third call repeats the first, with values of a request, after a call
\* for another template; the template has a block and variables
RepeatedCallWitness ==
    /\ Completed
    /\ pc = "main_done"
    /\ Len(earlier) = 2
    /\ SameInputs(1)
    /\ earlier[2].template # template_content
    /\ earlier[2].result.success
    /\ earlier[2].result.variables # <<>>
    /\ DOMAIN overrides # {}
    /\ result.success
    /\ result.has_conditionals
    /\ result.variables # <<>>

-----------------------------------------------------------------------------
(* The blocks of a template, by the nesting of its tags.                   *)

RECURSIVE CountKind(_, _)
CountKind(line, kind) ==
    IF line = <<>> THEN 0
    ELSE (IF line[1].k = kind THEN 1 ELSE 0) + CountKind(Tail(line), kind)

\* the number of blocks open after line k
RECURSIVE DepthAfter(_)
DepthAfter(k) ==
    IF k = 0 THEN 0
    ELSE DepthAfter(k - 1) + CountKind(lines[k], "if") - CountKind(lines[k], "endif")

\* line k is an if tag alone on its line that opens a top-level block
Opens(k) ==
    /\ Len(lines[k]) = 1
    /\ IsIfTag(lines[k][1])
    /\ DepthAfter(k - 1) = 0

\* the line of the endif that balances the if of line k, Len(lines) + 1 when
\* there is none
Close(k) ==
    IF \E m \in (k + 1)..Len(lines) : DepthAfter(m) < DepthAfter(k)
    THEN CHOOSE m \in (k + 1)..Len(lines) :
             /\ DepthAfter(m) < DepthAfter(k)
             /\ \A n \in (k + 1)..(m - 1) : DepthAfter(n) >= DepthAfter(k)
    ELSE Len(lines) + 1

\* the guard of the block that line k opens is classified exclude
ExcludedBlock(k) ==
    ~_should_include_condition_for_demo(StripChars(lines[k][1].g))

\* line j lies inside the top-level block that line k opens
Inside(k, j) == Opens(k) /\ k < j /\ j < Close(k)

\* line j lies inside no block and is no tag line of a top-level block
Outside(j) == \A k \in 1..Len(lines) : Opens(k) => (j < k \/ j > Close(k))

\* the line scan has read every line
ScanEnded == pc = "scan" /\ i >= Len(lines)

Emitted(line) == \E m \in 1..Len(output_lines) : output_lines[m] = line

\* C21: when the line scan has ended, no line inside a top-level block whose
\* guard is classified exclude is in the output buffer, unless the same text
\* is also a line outside the excluded blocks
ExcludedNeverEmitted ==
    ScanEnded =>
        \A k, j \in 1..Len(lines) :
            (/\ Inside(k, j)
             /\ ExcludedBlock(k)
             /\ \A m \in 1..Len(lines) :
                    lines[m] = lines[j] =>
                        \E n \in 1..Len(lines) : Inside(n, m) /\ ExcludedBlock(n))
            => ~Emitted(lines[j])

\* the line holds an if, elif, else or endif tag
HasConditionalTag(line) ==
    \E m \in 1..Len(line) : line[m].k \in {"if", "elif", "else", "endif"}

\* the positions of the output buffer that hold the line
PositionsOf(line) == {m \in 1..Len(output_lines) : output_lines[m] = line}

\* line j lies outside every block, holds no conditional tag, and no other
\* line has its text
PlainOutside(j) ==
    /\ Outside(j)
    /\ ~HasConditionalTag(lines[j])
    /\ \A m \in 1..Len(lines) : lines[m] = lines[j] => m = j

\* C22: when the line scan has ended, every line that lies outside all blocks
\* and holds no conditional tag is in the output buffer exactly once, and two
\* such lines are there in the order they have in the template
OutsideLinesCopiedOnce ==
    ScanEnded =>
        /\ \A j \in 1..Len(lines) :
               PlainOutside(j) => Cardinality(PositionsOf(lines[j])) = 1
        /\ \A j1, j2 \in 1..Len(lines) :
               (PlainOutside(j1) /\ PlainOutside(j2) /\ j1 < j2)
               => \A m1 \in PositionsOf(lines[j1]), m2 \in PositionsOf(lines[j2]) :
                      m1 < m2

\* line b is an else or elif of the top-level block that line k opens
BranchOf(k, b) ==
    /\ Inside(k, b)
    /\ DepthAfter(b) = 1
    /\ CountKind(lines[b], "if") = 0
    /\ CountKind(lines[b], "else") + CountKind(lines[b], "elif") > 0

\* line j lies in an else or elif branch of the included top-level block
\* that line k opens, or is the endif of that block
Discarded(k, j) ==
    /\ Opens(k)
    /\ ~ExcludedBlock(k)
    /\ j <= Close(k)
    /\ \E b \in 1..j : BranchOf(k, b)

\* C23: when the line scan has ended, no line from the first else or elif of
\* an included top-level block to the endif that balances the block's if is
\* in the output buffer, unless the same text is also a line elsewhere
BranchesNeverEmitted ==
    ScanEnded =>
        \A k, j \in 1..Len(lines) :
            (/\ Discarded(k, j)
             /\ \A m \in 1..Len(lines) : lines[m] = lines[j] => Discarded(k, m))
            => ~Emitted(lines[j])

\* the first else, elif or endif line at depth 0 of the top-level block that
\* line k opens, Len(lines) + 1 when there is none
InteriorEnd(k) ==
    LET ends == {b \in 1..Len(lines) : BranchOf(k, b)} \cup {Close(k)}
    IN  CHOOSE e \in ends : \A b \in ends : e <= b

\* C24: when the loop of an included top-level block ends, the lines it has
\* collected are the lines strictly between the opening if and the first
\* else, elif or endif at depth 0 of the block, verbatim and in order, and
\* they are what the block adds to the output buffer
IncludedBlockAppendsInterior ==
    [][/\ (pc = "incl" /\ pc' # "incl") =>
            LET k == i - Len(block_content)
            IN  Opens(k) =>
                    /\ block_content' = SubSeq(lines, k + 1, InteriorEnd(k) - 1)
                    /\ pc' = "scan" => output_lines' = output_lines \o block_content'
       /\ (pc = "skip_else" /\ pc' = "scan") =>
            output_lines' = output_lines \o block_content]_vars

\* the text holds the given line, whole and unbroken
HoldsLine(text, line) ==
    \E m \in 0..(Len(text) - Len(line)) : SubSeq(text, m + 1, m + Len(line)) = line

\* C25: while the loop of an included top-level block reads the interior of
\* the block, it classifies no guard: every line, also a nested if line whose
\* guard holds an exclude keyword and the lines after it, is added to the
\* collected lines, and the scan never takes the excluded path there; the
\* final cleanup keeps every collected line that holds no tag and leaves no
\* if tag that has a guard and no endif tag
NestedGuardsNotClassified ==
    [][/\ (/\ pc = "incl"
           /\ Opens(i - Len(block_content))
           /\ i + 1 < InteriorEnd(i - Len(block_content)))
          => /\ pc' # "excl"
             /\ block_content' = Append(block_content, lines[i + 1])
             /\ pc' = "scan" => output_lines' = output_lines \o block_content'
       /\ (pc = "scan" /\ pc' \in {"render", "done"})
          => /\ \A m \in 1..Len(output_lines) :
                    (/\ output_lines[m] # <<>>
                     /\ Strip(output_lines[m]) = output_lines[m]
                     /\ ~HasTagDelimiter(output_lines[m]))
                    => HoldsLine(simplified_template', output_lines[m])
             /\ \A m \in 1..Len(simplified_template') :
                    /\ ~IsIfTag(simplified_template'[m])
                    /\ simplified_template'[m].k # "endif"]_vars

\* the lines of a block with an exclude guard, nested in an included block,
\* have been collected and the cleanup has left the content line alone
NestedExcludeGuardWitness ==
    /\ template_content = Extra.ExcludeGuardNested
    /\ pc = "done"
    /\ output_lines = << <<If(n_debug_mode)>>, <<Txt("a = 1")>>, <<Endif>> >>
    /\ simplified_template = <<Txt("a = 1")>>

\* the stage has run in this call
HasRun(stage) == \E j \in 1..Len(ran) : ran[j] = stage

\* C26: in analyze_template the simplifier runs only when has_conditionals is
\* true, and for a template that holds neither '{% if' nor '{% elif' the text
\* the renderer is about to get, and the text it got, is the template itself,
\* with its tags and blanks
NoConditionalsNoSimplifier ==
    entry = "analyze_template" =>
        /\ (HasRun("simplify") \/ pc \in {"simplify", "scan", "incl", "excl", "skip_else"})
           => has_conditionals
        /\ (/\ pc = "render" \/ HasRun("render")
            /\ ~HasTagPrefix(template_content, "if")
            /\ ~HasTagPrefix(template_content, "elif"))
           => /\ ~HasRun("simplify")
              /\ simplified_template = template_content

\* a template with an if tag spelled "{%if", blanks around its text and an
\* endif tag has been rendered
TightIfRenderedWitness ==
    /\ entry = "analyze_template"
    /\ template_content = Extra.TightIf
    /\ HasRun("render")
    /\ simplified_template = Extra.TightIf
    /\ ~has_conditionals

\* the line is empty or holds blanks only
IsBlankLine(line) == \A m \in 1..Len(line) : IsSpace(line[m])

\* the first thing on the line that is no blank is the opening of a comment
StartsWithComment(line) ==
    \E m \in 1..Len(line) :
        line[m].k = "comment" /\ \A r \in 1..(m - 1) : IsSpace(line[r])

\* the line is neither blank nor led by a comment
IsSqlLine(line) == ~IsBlankLine(line) /\ ~StartsWithComment(line)

\* the lines of a text, none for the empty text
LinesOf(text) == IF text = <<>> THEN <<>> ELSE Split(text)

Scanning == pc \in {"scan", "incl", "excl", "skip_else"}

\* C28: every iteration of the outer loop and of the inner loops of the line
\* scan reads the line after the last one read, within the text (the skip
\* after an else that finds no endif ends at the end of the text), and the
\* scan, once begun, comes to its end
ScanAdvancesAndEnds ==
    /\ [][(Scanning /\ Scanning') =>
             \/ i' = i + 1 /\ i' <= Len(lines)
             \/ pc = "skip_else" /\ pc' = "scan" /\ i = Len(lines) /\ i' = i]_vars
    /\ (Scanning ~> ScanEnded)

\* the scan of a block with an else and no endif has ended
MissingEndifScannedWitness ==
    /\ template_content = Join(<< <<If(n_is_admin)>>, <<Else>>, <<Txt("a = 1")>> >>)
    /\ pc = "done"
    /\ i = 3
    /\ output_lines = <<>>

\* a is b with some of its elements left out
RECURSIVE IsSubsequence(_, _)
IsSubsequence(a, b) ==
    IF a = <<>> THEN TRUE
    ELSE IF b = <<>> THEN FALSE
    ELSE IF Head(a) = Head(b) THEN IsSubsequence(Tail(a), Tail(b))
    ELSE IsSubsequence(a, Tail(b))

\* the lines the scan has kept so far: the output buffer and, inside an
\* included block, the lines collected for it
KeptSoFar ==
    output_lines \o (IF pc \in {"incl", "skip_else"} THEN block_content ELSE <<>>)

\* C29: at every step the lines kept so far are a subsequence of the lines
\* read so far: whole lines of the text, each at most once, in the order of
\* the text
OutputIsSubsequence ==
    /\ i <= Len(lines)
    /\ IsSubsequence(KeptSoFar, SubSeq(lines, 1, i))

\* the scan has kept the one interior line of an included block and dropped
\* the two tag lines
InteriorKeptWitness ==
    /\ ScanEnded
    /\ Len(lines) = 3
    /\ lines[1] = <<If(n_is_admin)>>
    /\ lines[3] = <<Endif>>
    /\ output_lines = <<lines[2]>>

\* the type of the keyword list that holds the whole name, integer before
\* boolean before date, string when no list holds it
ExactLookup(lower_name) ==
    IF lower_name \in IntegerWords THEN "integer"
    ELSE IF lower_name \in BooleanWords THEN "boolean"
    ELSE IF lower_name \in DateWords THEN "date"
    ELSE "string"

\* C30: every variable of a returned result has the type that the exact
\* lookup of its whole lower-cased name gives: integer, boolean or date only
\* when the whole name is a keyword of that type, string otherwise
TypeIsExactLookup ==
    (Returned /\ result.success) =>
        \A j \in 1..Len(result.variables) :
            /\ result.variables[j].type = ExactLookup(LowerStr(result.variables[j].name))
            /\ result.variables[j].type =
                   _infer_variable_type(result.variables[j].name, <<>>)

\* names that are a keyword (id, ID, is_, end) and names that hold one
\* (id2, created_at, is_active, limit_count) have been typed
KeywordNamesTypedWitness ==
    /\ Returned
    /\ template_content = Extra.Names
    /\ [j \in 1..Len(result.variables) |-> result.variables[j].type]
           = <<"integer", "integer", "string", "string", "string", "boolean",
               "date", "string">>

====
